---- MODULE Spec2Model ----
(***************************************************************************)
(* Penny Stock Challenge: the valuation engine (portfolio.py:               *)
(* calculate_portfolio) replaying the trade ledger that the app's trade     *)
(* form writes (app.py, data_handler.py: save_trade), against the answers   *)
(* of the price gateway (get_historical_prices, get_current_price).         *)
(*                                                                         *)
(* Spec:         a ledger written by the trade form, then one call.        *)
(* SpecSnapshot: the engine called, twice, on any small ledger frame.      *)
(* SpecApp:      the trade form with its Sell check, and the two deletes.  *)
(* SpecSession:  the script runs of a logged-in session: st.cache_data,    *)
(*               the trade form, the dashboard's delete / Confirm / Cancel.*)
(* SpecTable:    the trades table under the app and repair_timestamps.     *)
(* SpecPassword: hash_password and check_password on pairs of passwords.   *)
(* SpecAuth:     registrations running add_user side by side.              *)
(*                                                                         *)
(* Money is counted in whole price units and shares in whole shares (the   *)
(* app's number_input gives integer shares >= 1).  Quantities the code     *)
(* obtains by float division (avg_price, realized and unrealized P/L) are  *)
(* exact rationals [n, d] in lowest terms: float rounding is not modelled. *)
(***************************************************************************)
EXTENDS Integers, Sequences, FiniteSets, TLC

\* ------------------------------------------------------------------ bounds
MaxTrades == 3     \* rows of the ledger
MaxDay == 1        \* calendar days 0..MaxDay
MaxRows == 2       \* rows of a ledger snapshot handed to the engine as it is
MaxUsers == 2      \* rows of the users table

\* ------------------------------------------------------- program constants
initial_capital == 500

\* --------------------------------------------------------------- input sets
Users == {"user1", "user2"}
Tickers == {"GME", "AMC"}
Actions == {"Buy", "Sell"}
ShareLots == {5, 20, 100}
PriceTicks == {4, 6}

\* ---------------------------------------------------------------- rationals
Abs(x) == IF x < 0 THEN -x ELSE x

RECURSIVE Gcd(_, _)
Gcd(a, b) == IF b = 0 THEN a ELSE Gcd(b, a % b)

\* n/d in lowest terms, d > 0
Q(n, d) ==
    LET g == Gcd(Abs(n), Abs(d))
        s == IF d < 0 THEN -1 ELSE 1
    IN [n |-> (s * n) \div g, d |-> (s * d) \div g]

QInt(i) == [n |-> i, d |-> 1]
QAdd(x, y) == Q(x.n * y.d + y.n * x.d, x.d * y.d)
QSub(x, y) == Q(x.n * y.d - y.n * x.d, x.d * y.d)
QMulInt(x, i) == Q(x.n * i, x.d)
QDivInt(x, i) == Q(x.n, x.d * i)

\* ------------------------------------------------------- dictionaries, sums
EmptyDict == [k \in {} |-> 0]

DictPut(dct, k, v) == [x \in (DOMAIN dct) \cup {k} |-> IF x = k THEN v ELSE dct[x]]

DictDel(dct, k) == [x \in (DOMAIN dct) \ {k} |-> dct[x]]

RECURSIVE SumInt(_, _)
SumInt(f, S) ==
    IF S = {} THEN 0
    ELSE LET k == CHOOSE x \in S : TRUE IN f[k] + SumInt(f, S \ {k})

RECURSIVE SumQ(_, _)
SumQ(f, S) ==
    IF S = {} THEN QInt(0)
    ELSE LET k == CHOOSE x \in S : TRUE IN QAdd(f[k], SumQ(f, S \ {k}))

\* ---------------------------------------------------------------- timestamps
\* A timestamp is [day, tod]: the calendar day and the time of day, ordered
\* lexicographically.  normalize() drops the time of day.  NaT is what
\* load_data's pd.to_datetime(errors='coerce') makes of a text it cannot
\* parse; every comparison with NaT is False.
NaT == [day |-> -1, tod |-> -1]

isna(ts) == ts = NaT

TsLess(a, b) ==
    /\ ~isna(a)
    /\ ~isna(b)
    /\ (a.day < b.day \/ (a.day = b.day /\ a.tod < b.tod))

normalize(ts) == ts.day

\* A different filter: only the trades before the midnight that starts the day
BeforeNextMidnight_BeforeThisMidnight(ts, current_date) == ~isna(ts) /\ ts.day < current_date

\* timestamp < current_date + timedelta(days=1), current_date a midnight
BeforeNextMidnight(ts, current_date) == ~isna(ts) /\ ts.day < current_date + 1

\* ------------------------------------------------------ data frame of trades
\* A row of the trades table: [id, participant, timestamp, ticker, action,
\* shares, price].  A data frame is a sequence of rows; a boolean-mask
\* selection df[mask] is SelectSeq.
\* df.sort_values(by='timestamp'): rows in ascending timestamp order, rows of
\* equal timestamp in the order the frame has them (the insertion sort numpy's
\* quicksort does on up to 16 elements), rows without timestamp last
\* (na_position='last') in the order the frame has them
RECURSIVE InsertByTimestamp(_, _)
InsertByTimestamp(sorted, row) ==
    IF sorted = <<>> THEN <<row>>
    ELSE IF TsLess(row.timestamp, Head(sorted).timestamp)
         THEN <<row>> \o sorted
         ELSE <<Head(sorted)>> \o InsertByTimestamp(Tail(sorted), row)

RECURSIVE SortDated(_)
SortDated(df) ==
    IF df = <<>> THEN <<>>
    ELSE InsertByTimestamp(SortDated(SubSeq(df, 1, Len(df) - 1)), df[Len(df)])

sort_values(df) ==
    SortDated(SelectSeq(df, LAMBDA r : ~isna(r.timestamp)))
        \o SelectSeq(df, LAMBDA r : isna(r.timestamp))

\* trades_df['col'].unique()
UniqueOf(df, col) == {df[i][col] : i \in 1..Len(df)}

\* Series.min() of a non-empty set of days
MinOf(S) == CHOOSE y \in S : \A z \in S : y <= z

\* ------------------------------------------------- replay / accounting core
\* The replay state of one participant: cash, holdings
\* {ticker: [shares, avg_price]} and realized_pl.
ResetState == [cash |-> initial_capital, holdings |-> EmptyDict, realized_pl |-> QInt(0)]

\* A looser test than the code's: the holding is dropped only below zero shares
EffectivelyZero_BelowZero(sh) == sh < 0

\* holdings[ticker]['shares'] < 1e-6, for whole share counts
EffectivelyZero(sh) == sh < 1

\* ---- the trade loop of the daily recalculation
\* A different Buy: the shares are added, the cost is not taken off the cash
DailyBuy_CashNotDebited(st, trade) ==
    LET shares == trade.shares
        price == trade.price
        ticker == trade.ticker
        cost == shares * price
        holdings == st.holdings
    IN [cash |-> st.cash,
        holdings |->
            IF ticker \in DOMAIN holdings THEN
                LET old_shares == holdings[ticker].shares
                    old_cost == QMulInt(holdings[ticker].avg_price, old_shares)
                    new_shares == old_shares + shares
                IN [holdings EXCEPT ![ticker] =
                        [shares |-> new_shares,
                         avg_price |-> QDivInt(QAdd(old_cost, QInt(cost)), new_shares)]]
            ELSE DictPut(holdings, ticker, [shares |-> shares, avg_price |-> QInt(price)]),
        realized_pl |-> st.realized_pl]

DailyBuy(st, trade) ==
    LET shares == trade.shares
        price == trade.price
        ticker == trade.ticker
        cost == shares * price
        holdings == st.holdings
    IN [cash |-> st.cash - cost,
        holdings |->
            IF ticker \in DOMAIN holdings THEN
                LET old_shares == holdings[ticker].shares
                    old_cost == QMulInt(holdings[ticker].avg_price, old_shares)
                    new_shares == old_shares + shares
                IN [holdings EXCEPT ![ticker] =
                        [shares |-> new_shares,
                         avg_price |-> QDivInt(QAdd(old_cost, QInt(cost)), new_shares)]]
            ELSE DictPut(holdings, ticker, [shares |-> shares, avg_price |-> QInt(price)]),
        realized_pl |-> st.realized_pl]

DailySellValid(holdings, ticker, shares) ==
    ticker \in DOMAIN holdings /\ holdings[ticker].shares >= shares

\* A different Sell: the sale's proceeds are taken off the cost of what remains
DailySell_ProceedsOffCost(st, trade) ==
    LET shares == trade.shares
        price == trade.price
        ticker == trade.ticker
        cost == shares * price
        holdings == st.holdings
    IN
    IF DailySellValid(holdings, ticker, shares) THEN
        LET left == holdings[ticker].shares - shares
            old_cost == QMulInt(holdings[ticker].avg_price, holdings[ticker].shares)
        IN
        [cash |-> st.cash + cost,
         realized_pl |-> QAdd(st.realized_pl,
                              QMulInt(QSub(QInt(price), holdings[ticker].avg_price), shares)),
         holdings |->
            IF EffectivelyZero(left) THEN DictDel(holdings, ticker)
            ELSE [holdings EXCEPT ![ticker] =
                    [shares |-> left,
                     avg_price |-> QDivInt(QSub(old_cost, QInt(cost)), left)]]]
    ELSE st

DailySell(st, trade) ==
    LET shares == trade.shares
        price == trade.price
        ticker == trade.ticker
        cost == shares * price
        holdings == st.holdings
    IN
    IF DailySellValid(holdings, ticker, shares) THEN
        LET left == holdings[ticker].shares - shares IN
        [cash |-> st.cash + cost,
         realized_pl |-> QAdd(st.realized_pl,
                              QMulInt(QSub(QInt(price), holdings[ticker].avg_price), shares)),
         holdings |->
            IF EffectivelyZero(left) THEN DictDel(holdings, ticker)
            ELSE [holdings EXCEPT ![ticker].shares = left]]
    ELSE st

\* One iteration of the loop over participant_trades.iterrows()
DailyApplyTrade(st, trade) ==
    IF trade.action = "Buy" THEN DailyBuy(st, trade)
    ELSE IF trade.action = "Sell" THEN DailySell(st, trade)
    ELSE st

\* ---- the trade loop of the final (current-state) calculation
\* A different Buy: a further Buy overwrites avg_price with its own price
FinalBuy_OverwritesAverage(st, trade) ==
    LET shares == trade.shares
        price == trade.price
        ticker == trade.ticker
        cost == shares * price
        holdings == st.holdings
    IN [cash |-> st.cash - cost,
        holdings |->
            IF ticker \in DOMAIN holdings THEN
                [holdings EXCEPT ![ticker] =
                    [shares |-> holdings[ticker].shares + shares,
                     avg_price |-> QInt(price)]]
            ELSE DictPut(holdings, ticker, [shares |-> shares, avg_price |-> QInt(price)]),
        realized_pl |-> st.realized_pl]

FinalBuy(st, trade) ==
    LET shares == trade.shares
        price == trade.price
        ticker == trade.ticker
        cost == shares * price
        holdings == st.holdings
    IN [cash |-> st.cash - cost,
        holdings |->
            IF ticker \in DOMAIN holdings THEN
                LET old_shares == holdings[ticker].shares
                    old_cost == QMulInt(holdings[ticker].avg_price, old_shares)
                    new_shares == old_shares + shares
                IN [holdings EXCEPT ![ticker] =
                        [shares |-> new_shares,
                         avg_price |-> QDivInt(QAdd(old_cost, QInt(cost)), new_shares)]]
            ELSE DictPut(holdings, ticker, [shares |-> shares, avg_price |-> QInt(price)]),
        realized_pl |-> st.realized_pl]

\* A looser guard than the code's: the ticker is checked, the shares are not
FinalSellValid_TickerOnly(holdings, ticker, shares) == ticker \in DOMAIN holdings

FinalSellValid(holdings, ticker, shares) ==
    ticker \in DOMAIN holdings /\ holdings[ticker].shares >= shares

\* A different Sell: the gain of a sale is its proceeds, the cost basis forgotten
FinalSell_GainIsProceeds(st, trade) ==
    LET shares == trade.shares
        price == trade.price
        ticker == trade.ticker
        cost == shares * price
        holdings == st.holdings
    IN
    IF FinalSellValid(holdings, ticker, shares) THEN
        LET left == holdings[ticker].shares - shares IN
        [cash |-> st.cash + cost,
         realized_pl |-> QAdd(st.realized_pl, QInt(cost)),
         holdings |->
            IF EffectivelyZero(left) THEN DictDel(holdings, ticker)
            ELSE [holdings EXCEPT ![ticker].shares = left]]
    ELSE st

FinalSell(st, trade) ==
    LET shares == trade.shares
        price == trade.price
        ticker == trade.ticker
        cost == shares * price
        holdings == st.holdings
    IN
    IF FinalSellValid(holdings, ticker, shares) THEN
        LET left == holdings[ticker].shares - shares IN
        [cash |-> st.cash + cost,
         realized_pl |-> QAdd(st.realized_pl,
                              QMulInt(QSub(QInt(price), holdings[ticker].avg_price), shares)),
         holdings |->
            IF EffectivelyZero(left) THEN DictDel(holdings, ticker)
            ELSE [holdings EXCEPT ![ticker].shares = left]]
    ELSE st

\* One iteration of the loop over participant_trades.iterrows()
FinalApplyTrade(st, trade) ==
    IF trade.action = "Buy" THEN FinalBuy(st, trade)
    ELSE IF trade.action = "Sell" THEN FinalSell(st, trade)
    ELSE st

\* The states the daily trade loop goes through: <<reset, after trade 1, ...>>
RECURSIVE DailyReplaySteps(_)
DailyReplaySteps(rows) ==
    IF rows = <<>> THEN <<ResetState>>
    ELSE LET before == DailyReplaySteps(SubSeq(rows, 1, Len(rows) - 1))
         IN Append(before, DailyApplyTrade(before[Len(before)], rows[Len(rows)]))

\* The states the final trade loop goes through.
RECURSIVE FinalReplaySteps(_)
FinalReplaySteps(rows) ==
    IF rows = <<>> THEN <<ResetState>>
    ELSE LET before == FinalReplaySteps(SubSeq(rows, 1, Len(rows) - 1))
         IN Append(before, FinalApplyTrade(before[Len(before)], rows[Len(rows)]))

Last(seq) == seq[Len(seq)]

MaxOf(S) == CHOOSE y \in S : \A z \in S : y >= z

\* --------------------------------------------------------------- price gateway
\* A frame of daily closes: columns (tickers), index (the days that have a
\* row) and close[d][t]; a ticker outside DOMAIN close[d] is NaN on day d.
EmptyFrame == [columns |-> {}, index |-> {}, close |-> EmptyDict]

FrameEmpty(frame) == frame.index = {} \/ frame.columns = {}

\* The market's daily close of a ticker
MarketClose(t, d) == IF t = "GME" THEN 4 + d ELSE 6 - d

\* What the download can answer: "failed" (an exception), "complete" (a row
\* for every day asked), "weekend" (no row for the last day asked) or
\* "nodata" (a row for every day asked, the column of AMC NaN in each: the
\* market has no close for that ticker).
HistKinds == {"failed", "complete", "weekend", "nodata"}

\* get_historical_prices(tickers, start_date, end_date), end_date exclusive
get_historical_prices(kind, tickers, start_date, end_date) ==
    IF tickers = {} THEN EmptyFrame
    ELSE IF kind = "failed" THEN EmptyFrame
    ELSE LET days == {d \in start_date..(end_date - 1) :
                        kind # "weekend" \/ d < end_date - 1}
             quoted == IF kind = "nodata" THEN tickers \ {"AMC"} ELSE tickers
         IN IF days = {} THEN EmptyFrame
            ELSE [columns |-> tickers, index |-> days,
                  close |-> [d \in days |-> [t \in quoted |-> MarketClose(t, d)]]]

\* historical_prices.asof(current_date): the last row at or before
\* current_date that has no NaN in any column; all NaN when there is none.
asof(frame, where) ==
    LET full == {d \in frame.index : DOMAIN frame.close[d] = frame.columns}
        cand == {d \in full : d <= where}
    IN IF where < MinOf(frame.index) \/ full = {} \/ cand = {} THEN EmptyDict
       ELSE frame.close[MaxOf(cand)]

\* The live price of a ticker when the gateway has one
LiveQuote(t) == 5

NoneValue == [isnum |-> FALSE, v |-> 0]

\* What get_current_price(all_tickers) can answer: a mapping ticker -> price
\* or None (what calculate_portfolio reads), or a scalar (float or None).
LiveResponses(tickers) ==
    {[scalar |-> TRUE, quotes |-> EmptyDict]} \cup
    {[scalar |-> FALSE,
      quotes |-> [t \in tickers |-> IF t \in quoted
                                     THEN [isnum |-> TRUE, v |-> LiveQuote(t)]
                                     ELSE NoneValue]] : quoted \in SUBSET tickers}

\* {k: v for k, v in latest_prices_str.items() if isinstance(v, (int, float))}
LatestPrices(latest_prices_str) ==
    LET q == latest_prices_str.quotes
    IN [t \in {k \in DOMAIN q : q[k].isnum} |-> q[t].v]

\* ------------------------------------------------------- calculate_portfolio
\* holdings_value of the day: cash excluded
HoldingsValue(historical_prices, holdings, current_date) ==
    IF ~FrameEmpty(historical_prices) THEN
        LET day_prices == asof(historical_prices, current_date)
        IN SumInt([t \in DOMAIN holdings |->
                     IF t \in historical_prices.columns /\ t \in DOMAIN day_prices
                     THEN holdings[t].shares * day_prices[t] ELSE 0],
                  DOMAIN holdings)
    ELSE 0

\* The trades the daily loop replays for a participant on current_date
DailyParticipantTrades(trades_df, participant, current_date) ==
    LET daily_trades ==
            SelectSeq(trades_df, LAMBDA r : BeforeNextMidnight(r.timestamp, current_date))
    IN sort_values(SelectSeq(daily_trades, LAMBDA r : r.participant = participant))

\* One value_history entry
DailySample(trades_df, historical_prices, participant, current_date) ==
    LET st == Last(DailyReplaySteps(DailyParticipantTrades(trades_df, participant, current_date)))
    IN [timestamp |-> current_date,
        total_value |-> st.cash + HoldingsValue(historical_prices, st.holdings, current_date)]

\* What calculate_portfolio returned: the dict it builds in each call
VARIABLE portfolios

\* A different history: the samples are appended to what the previous call
\* left in portfolios, as if the dict outlived the call
ValueHistory_KeptAcrossCalls(trades_df, historical_prices, participant, start_date, end_date) ==
    (IF participant \in DOMAIN portfolios THEN portfolios[participant].value_history ELSE <<>>)
    \o [i \in 1..(IF end_date >= start_date THEN end_date - start_date + 1 ELSE 0) |->
            DailySample(trades_df, historical_prices, participant, start_date + i - 1)]

\* pd.date_range(start=start_date, end=end_date), one sample per date
ValueHistory(trades_df, historical_prices, participant, start_date, end_date) ==
    [i \in 1..(IF end_date >= start_date THEN end_date - start_date + 1 ELSE 0) |->
        DailySample(trades_df, historical_prices, participant, start_date + i - 1)]

\* The trades the final loop replays for a participant
FinalParticipantTrades(trades_df, participant) ==
    sort_values(SelectSeq(trades_df, LAMBDA r : r.participant = participant))

\* A different sum: a holding without a live price is compared with price 0
TotalUnrealizedPl_MissingIsZero(holdings, latest_prices) ==
    SumQ([t \in DOMAIN holdings |->
            QMulInt(QSub(QInt(IF t \in DOMAIN latest_prices THEN latest_prices[t] ELSE 0),
                         holdings[t].avg_price),
                    holdings[t].shares)],
         DOMAIN holdings)

\* total_unrealized_pl: the priced holdings only
TotalUnrealizedPl(holdings, latest_prices) ==
    LET priced == (DOMAIN holdings) \cap (DOMAIN latest_prices)
    IN SumQ([t \in priced |->
                QMulInt(QSub(QInt(latest_prices[t]), holdings[t].avg_price),
                        holdings[t].shares)],
            priced)

\* A different sum: a priced holding counts its price once, not per share
CurrentHoldingsValueSum_SharesIgnored(holdings, latest_prices) ==
    LET priced == (DOMAIN holdings) \cap (DOMAIN latest_prices)
    IN SumInt([t \in priced |-> latest_prices[t]], priced)

\* current_holdings_value, the running sum: the priced holdings only
CurrentHoldingsValueSum(holdings, latest_prices) ==
    LET priced == (DOMAIN holdings) \cap (DOMAIN latest_prices)
    IN SumInt([t \in priced |-> holdings[t].shares * latest_prices[t]], priced)

\* The final, current state of one participant
FinalPortfolio(trades_df, historical_prices, latest_prices, participant, start_date, end_date) ==
    LET st == Last(FinalReplaySteps(FinalParticipantTrades(trades_df, participant)))
        holdings == st.holdings
    IN [participant |-> participant,
        cash |-> st.cash,
        holdings |-> holdings,
        realized_pl |-> 0,
        value_history |->
            ValueHistory(trades_df, historical_prices, participant, start_date, end_date),
        trades |-> SelectSeq(trades_df, LAMBDA r : r.participant = participant),
        total_realized_pl |-> st.realized_pl,
        total_unrealized_pl |-> TotalUnrealizedPl(holdings, latest_prices),
        current_holdings_value |->
            [t \in DOMAIN holdings |->
                holdings[t].shares *
                    (IF t \in DOMAIN latest_prices THEN latest_prices[t] ELSE 0)],
        current_holdings_price |->
            [t \in (DOMAIN holdings) \cap (DOMAIN latest_prices) |-> latest_prices[t]],
        total_value |-> st.cash + CurrentHoldingsValueSum(holdings, latest_prices)]

\* trades_df['ticker'].unique()
AllTickers(trades_df) == UniqueOf(trades_df, "ticker")

\* trades_df['timestamp'].min().normalize(): min() skips NaT and is NaT when
\* no row has a timestamp
StartDate(trades_df) ==
    LET dated == {i \in 1..Len(trades_df) : ~isna(trades_df[i].timestamp)}
    IN IF dated = {} THEN normalize(NaT)
       ELSE MinOf({normalize(trades_df[i].timestamp) : i \in dated})

\* calculate_portfolio(trades_df) on evaluation day `today`, the gateway
\* answering historical_prices and latest_prices_str: [raised, portfolios]
calculate_portfolio(trades_df, today, historical_prices, latest_prices_str) ==
    IF trades_df = <<>> THEN [raised |-> FALSE, portfolios |-> EmptyDict]
    ELSE IF StartDate(trades_df) = normalize(NaT)
    THEN [raised |-> FALSE, portfolios |-> EmptyDict]
    ELSE
        LET start_date == StartDate(trades_df)
            end_date == today
            participants == UniqueOf(trades_df, "participant")
        IN IF latest_prices_str.scalar
           THEN [raised |-> TRUE, portfolios |-> EmptyDict]
           ELSE [raised |-> FALSE,
                 portfolios |->
                    [p \in participants |->
                        FinalPortfolio(trades_df, historical_prices,
                                       LatestPrices(latest_prices_str), p,
                                       start_date, end_date)]]

\* What the historical download can answer to calculate_portfolio's request
HistResponses(trades_df, today) ==
    {get_historical_prices(kind, AllTickers(trades_df), StartDate(trades_df), today + 1) :
        kind \in HistKinds}

\* A different call: the gateway is asked whatever the ledger holds
GatewayCallsAlways(trades_df) == {"get_historical_prices", "get_current_price"}

\* The gateway functions a call of calculate_portfolio calls: none when it
\* returns early (empty ledger, or no row with a timestamp)
GatewayCalls(trades_df) ==
    IF trades_df = <<>> \/ StartDate(trades_df) = normalize(NaT) THEN {}
    ELSE {"get_historical_prices", "get_current_price"}

\* What a call surfaces to the user: st.error of a failed download and
\* st.warning of an empty historical frame.  A message is [level, subject,
\* id], id the trade it is about (0: none).
Messages(kind, historical_prices) ==
    (IF kind = "failed"
     THEN {[level |-> "error", subject |-> "Failed to download historical prices", id |-> 0]}
     ELSE {})
    \cup
    (IF FrameEmpty(historical_prices)
     THEN {[level |-> "warning", subject |-> "Could not fetch historical price data", id |-> 0]}
     ELSE {})

\* ------------------------------------------------------ the engine's caller
\* The trades the model records: user1 trades GME in the lots of 5 and 20
\* at every price; every other (participant, ticker) pair trades lots of 5
\* only, bought at 4 and sold at 6; user2 also buys AMC in a lot of 100 at
\* 6, which costs more than the initial capital.
Orders ==
    {o \in [participant : Users, ticker : Tickers, action : Actions,
            shares : ShareLots, price : PriceTicks] :
        \/ o.participant = "user1" /\ o.ticker = "GME" /\ o.shares \in {5, 20}
        \/ o.shares = 5 /\ o.price = (IF o.action = "Buy" THEN 4 ELSE 6)
        \/ /\ o.participant = "user2" /\ o.ticker = "AMC" /\ o.action = "Buy"
           /\ o.shares = 100 /\ o.price = 6}

VARIABLES
    trades_df,            \* the ledger: the trades table, and the snapshot of it
                          \* calculate_portfolio is given
    today,                \* pd.Timestamp.now().normalize()
    pc,                   \* "ledger": the ledger is being written;
                          \* "returned" / "raised": calculate_portfolio ended;
                          \* "again": it was called a second time
    historical_prices,    \* what get_historical_prices answered the call
    latest_prices_str,    \* what get_current_price answered the call
    messages,             \* what the call surfaced (st.warning, st.error)
    gateway_calls,        \* the gateway functions the call called
    portfolios_again,     \* what the second call returned
    next_id,              \* the id AUTOINCREMENT gives the next row
    last_call,            \* the last call of data_handler and what it returned
    session_state,        \* st.session_state of each user's browser session:
                          \* the trade ids whose confirming_delete flag is set
                          \* and the button whose key is True in the run
    cache,                \* what st.cache_data holds, per cached function
    users,                \* the users table
    registering,          \* each registration's place in add_user
    last_check            \* the last check_password call and what it returned

vars == <<trades_df, today, pc, historical_prices, latest_prices_str, portfolios,
          messages, gateway_calls, portfolios_again, next_id, last_call,
          session_state, cache, users, registering, last_check>>

\* st.cache_data with nothing in it
EmptyCache == [calculate_portfolio |-> {}, get_historical_prices |-> {}, get_current_price |-> {}]

\* No button of the dashboard is pressed
NoButton == [button |-> "none", trade_id |-> 0]

NewSession == [confirming |-> {}, pressed |-> NoButton]

\* The browser sessions that register a user
Registrants == {"r1", "r2"}

NotRegistering == [at |-> "idle"]

NoCheck == [op |-> "none"]

NoAnswer == [scalar |-> FALSE, quotes |-> EmptyDict]

NoCall == [op |-> "none", trade_id |-> [isint |-> TRUE, v |-> 0], username |-> "", result |-> FALSE]

Init ==
    /\ trades_df = <<>>
    /\ today = 0
    /\ pc = "ledger"
    /\ historical_prices = EmptyFrame
    /\ latest_prices_str = NoAnswer
    /\ portfolios = EmptyDict
    /\ messages = {}
    /\ gateway_calls = {}
    /\ portfolios_again = EmptyDict
    /\ next_id = 1
    /\ last_call = NoCall
    /\ session_state = [u \in Users |-> NewSession]
    /\ cache = EmptyCache
    /\ users = <<>>
    /\ registering = [r \in Registrants |-> NotRegistering]
    /\ last_check = NoCheck

\* A trade is recorded: the row gets the next id and the timestamp now
SaveTrade(o) ==
    /\ pc = "ledger"
    /\ Len(trades_df) < MaxTrades
    /\ trades_df' = Append(trades_df,
            [id |-> Len(trades_df) + 1,
             participant |-> o.participant,
             timestamp |-> [day |-> today, tod |-> Len(trades_df) + 1],
             ticker |-> o.ticker,
             action |-> o.action,
             shares |-> o.shares,
             price |-> o.price])
    /\ next_id' = next_id + 1
    /\ UNCHANGED <<today, pc, historical_prices, latest_prices_str, portfolios,
                   messages, gateway_calls, portfolios_again, last_call>>
    /\ UNCHANGED <<session_state, cache, users, registering, last_check>>

\* Midnight passes
NextDay ==
    /\ pc = "ledger"
    /\ today < MaxDay
    /\ today' = today + 1
    /\ UNCHANGED <<trades_df, pc, historical_prices, latest_prices_str, portfolios,
                   messages, gateway_calls, portfolios_again, next_id, last_call>>
    /\ UNCHANGED <<session_state, cache, users, registering, last_check>>

\* calculate_portfolio(trades_df) is called and runs to its end
Calculate ==
    /\ pc = "ledger"
    /\ IF GatewayCalls(trades_df) = {} THEN
          /\ portfolios' = calculate_portfolio(trades_df, today, EmptyFrame, NoAnswer).portfolios
          /\ pc' = "returned"
          /\ messages' = {}
          /\ UNCHANGED <<historical_prices, latest_prices_str>>
       ELSE
          \E kind \in HistKinds, lp \in LiveResponses(AllTickers(trades_df)) :
            LET hp == get_historical_prices(kind, AllTickers(trades_df),
                                            StartDate(trades_df), today + 1)
                res == calculate_portfolio(trades_df, today, hp, lp)
            IN
            /\ hp \in HistResponses(trades_df, today)
            /\ historical_prices' = hp
            /\ latest_prices_str' = lp
            /\ portfolios' = res.portfolios
            /\ messages' = Messages(kind, hp)
            /\ pc' = IF res.raised THEN "raised" ELSE "returned"
    /\ gateway_calls' = GatewayCalls(trades_df)
    /\ UNCHANGED <<trades_df, today, portfolios_again, next_id, last_call>>
    /\ UNCHANGED <<session_state, cache, users, registering, last_check>>

Next ==
    \/ \E o \in Orders : SaveTrade(o)
    \/ NextDay
    \/ Calculate

Spec == Init /\ [][Next]_vars

\* ------------------------------------------- the engine on any ledger frame
\* calculate_portfolio takes whatever frame it is handed: rows in any order,
\* rows of equal timestamp, rows whose timestamp did not parse (NaT), rows
\* with a negative share count or a zero price.  No row has zero shares, so
\* no average is ever divided by zero here.
SnapshotTimestamps(day) == {[day |-> d, tod |-> 1] : d \in 0..day} \cup {NaT}

SnapshotQuantities ==
    {[shares |-> 5, price |-> 4], [shares |-> -1, price |-> 4], [shares |-> 5, price |-> 0]}

SnapshotRows(day) ==
    {[participant |-> u, timestamp |-> ts, ticker |-> "GME", action |-> a,
      shares |-> q.shares, price |-> q.price] :
        u \in Users, ts \in SnapshotTimestamps(day), a \in Actions, q \in SnapshotQuantities}

\* The ways to give n rows the ids 1..n
IdOrders(n) == {f \in [1..n -> 1..n] : \A i, j \in 1..n : i # j => f[i] # f[j]}

Snapshots(day) ==
    UNION {{[i \in 1..n |->
                [id |-> ids[i],
                 participant |-> rows[i].participant,
                 timestamp |-> rows[i].timestamp,
                 ticker |-> rows[i].ticker,
                 action |-> rows[i].action,
                 shares |-> rows[i].shares,
                 price |-> rows[i].price]] :
              rows \in [1..n -> SnapshotRows(day)], ids \in IdOrders(n)} : n \in 0..MaxRows}

InitSnapshot ==
    /\ today \in 0..MaxDay
    /\ trades_df \in Snapshots(today)
    /\ pc = "ledger"
    /\ historical_prices = EmptyFrame
    /\ latest_prices_str = NoAnswer
    /\ portfolios = EmptyDict
    /\ messages = {}
    /\ gateway_calls = {}
    /\ portfolios_again = EmptyDict
    /\ next_id = Len(trades_df) + 1
    /\ last_call = NoCall
    /\ session_state = [u \in Users |-> NewSession]
    /\ cache = EmptyCache
    /\ users = <<>>
    /\ registering = [r \in Registrants |-> NotRegistering]
    /\ last_check = NoCheck

\* calculate_portfolio is called once more: the same ledger, the same day,
\* the same gateway answers
CalculateAgain ==
    /\ pc = "returned"
    /\ portfolios_again' =
            calculate_portfolio(trades_df, today, historical_prices, latest_prices_str).portfolios
    /\ pc' = "again"
    /\ UNCHANGED <<trades_df, today, historical_prices, latest_prices_str, portfolios,
                   messages, gateway_calls, next_id, last_call>>
    /\ UNCHANGED <<session_state, cache, users, registering, last_check>>

NextSnapshot ==
    \/ Calculate
    \/ CalculateAgain

SpecSnapshot == InitSnapshot /\ [][NextSnapshot]_vars

\* ------------------------------------------------- the app and the ledger
\* The script run of the app: load_data(), calculate_portfolio() (an
\* exception leaves portfolios = {}), then the handler of the widget used.
\* What delete_trade and admin_delete_trade are given as trade_id: an int
\* (zero, an id of the table, an id no row has) or something that is not an
\* int.
TradeIds ==
    {[isint |-> TRUE, v |-> i] : i \in 0..(MaxTrades + 1)} \cup {[isint |-> FALSE, v |-> 1]}

\* A different delete: the participant is not part of the WHERE clause
delete_trade_AnyOwner(trades, trade_id, username) ==
    IF ~trade_id.isint \/ trade_id.v <= 0 THEN [trades |-> trades, result |-> FALSE]
    ELSE LET kept == SelectSeq(trades, LAMBDA r : ~(r.id = trade_id.v))
         IN [trades |-> kept, result |-> Len(trades) - Len(kept) > 0]

\* delete_trade(trade_id, username): [trades after, value returned]
delete_trade(trades, trade_id, username) ==
    IF ~trade_id.isint \/ trade_id.v <= 0 THEN [trades |-> trades, result |-> FALSE]
    ELSE LET kept == SelectSeq(trades, LAMBDA r : ~(r.id = trade_id.v /\ r.participant = username))
         IN [trades |-> kept, result |-> Len(trades) - Len(kept) > 0]

\* admin_delete_trade(trade_id): [trades after, value returned]
admin_delete_trade(trades, trade_id) ==
    IF ~trade_id.isint \/ trade_id.v <= 0 THEN [trades |-> trades, result |-> FALSE]
    ELSE LET kept == SelectSeq(trades, LAMBDA r : ~(r.id = trade_id.v))
         IN [trades |-> kept, result |-> Len(trades) - Len(kept) > 0]

\* portfolios of the script run: {} when calculate_portfolio raised
RunPortfolios(res) == IF res.raised THEN EmptyDict ELSE res.portfolios

\* A different step 5: a Buy is refused when it costs more than the cash of
\* the run's portfolio (the initial capital when the user has none)
sell_action_valid_BuyNeedsCash(run_portfolios, username, o) ==
    IF o.action # "Sell"
    THEN o.shares * o.price <= (IF username \in DOMAIN run_portfolios
                                THEN run_portfolios[username].cash
                                ELSE initial_capital)
    ELSE IF username \notin DOMAIN run_portfolios THEN FALSE
    ELSE LET current_holdings == run_portfolios[username].holdings
             shares_owned == IF o.ticker \in DOMAIN current_holdings
                             THEN current_holdings[o.ticker].shares ELSE 0
         IN ~(o.shares > shares_owned) /\ ~(shares_owned <= 0)

\* Step 5 of the trade form: the Sell is checked against the holdings of
\* the run's portfolios
sell_action_valid(run_portfolios, username, o) ==
    IF o.action # "Sell" THEN TRUE
    ELSE IF username \notin DOMAIN run_portfolios THEN FALSE
    ELSE LET current_holdings == run_portfolios[username].holdings
             shares_owned == IF o.ticker \in DOMAIN current_holdings
                             THEN current_holdings[o.ticker].shares ELSE 0
         IN ~(o.shares > shares_owned) /\ ~(shares_owned <= 0)

\* "Record Trade" is pressed by the logged-in user
RecordTrade(o) ==
    /\ pc = "ledger"
    /\ next_id <= MaxTrades
    /\ \E kind \in HistKinds, lp \in LiveResponses(AllTickers(trades_df)) :
          LET hp == get_historical_prices(kind, AllTickers(trades_df),
                                          StartDate(trades_df), today + 1)
              run_portfolios == RunPortfolios(calculate_portfolio(trades_df, today, hp, lp))
          IN IF o.shares > 0 /\ o.price > 0
                /\ sell_action_valid(run_portfolios, o.participant, o)
             THEN /\ trades_df' = Append(trades_df,
                        [id |-> next_id,
                         participant |-> o.participant,
                         timestamp |-> [day |-> today, tod |-> next_id],
                         ticker |-> o.ticker,
                         action |-> o.action,
                         shares |-> o.shares,
                         price |-> o.price])
                  /\ next_id' = next_id + 1
                  /\ last_call' = [op |-> "save_trade",
                                   trade_id |-> [isint |-> TRUE, v |-> next_id],
                                   username |-> o.participant, result |-> TRUE]
             ELSE UNCHANGED <<trades_df, next_id, last_call>>
    /\ UNCHANGED <<today, pc, historical_prices, latest_prices_str, portfolios,
                   messages, gateway_calls, portfolios_again>>
    /\ UNCHANGED <<session_state, cache, users, registering, last_check>>

\* "Confirm" of a delete: delete_trade(trade_id, username)
DeleteTrade(username, trade_id) ==
    /\ pc = "ledger"
    /\ LET res == delete_trade(trades_df, trade_id, username) IN
       /\ trades_df' = res.trades
       /\ last_call' = [op |-> "delete_trade", trade_id |-> trade_id,
                        username |-> username, result |-> res.result]
    /\ UNCHANGED <<today, pc, historical_prices, latest_prices_str, portfolios,
                   messages, gateway_calls, portfolios_again, next_id>>
    /\ UNCHANGED <<session_state, cache, users, registering, last_check>>

\* "Confirm" of a delete on the admin page: admin_delete_trade(trade_id)
AdminDeleteTrade(trade_id) ==
    /\ pc = "ledger"
    /\ LET res == admin_delete_trade(trades_df, trade_id) IN
       /\ trades_df' = res.trades
       /\ last_call' = [op |-> "admin_delete_trade", trade_id |-> trade_id,
                        username |-> "admin", result |-> res.result]
    /\ UNCHANGED <<today, pc, historical_prices, latest_prices_str, portfolios,
                   messages, gateway_calls, portfolios_again, next_id>>
    /\ UNCHANGED <<session_state, cache, users, registering, last_check>>

NextApp ==
    \/ \E o \in Orders : RecordTrade(o)
    \/ \E username \in Users, trade_id \in TradeIds : DeleteTrade(username, trade_id)
    \/ \E trade_id \in TradeIds : AdminDeleteTrade(trade_id)

SpecApp == Init /\ [][NextApp]_vars

\* ------------------------------------------------ the session and the cache
\* Each script run of a logged-in session clears st.cache_data, loads the
\* ledger, calls calculate_portfolio through the cache and then runs the
\* handler of the button pressed; a handler that ends in st.rerun() is
\* followed by a run with no button pressed (pc = "rerun" until then).
\* A different script: the cache is not cleared when a run starts
CacheAtRunStart_Kept(store) == store

\* st.cache_data.clear() at the top of the logged-in branch
CacheAtRunStart(store) == EmptyCache

\* A cached function is looked up by its arguments
CacheHits(entries, key) == {e \in entries : e.key = key}

\* load_data() and calculate_portfolio(trades.copy()) of a script run on the
\* ledger, the evaluation day and the cache as they are, the gateway
\* answering kind and live when it is asked: [portfolios, cache]
LoadAndCalculate(ledger, day, store, kind, live) ==
    IF ledger = <<>>
    THEN [portfolios |-> EmptyDict, cache |-> store]
    ELSE
    LET hit == CacheHits(store.calculate_portfolio, ledger) IN
    IF hit # {}
    THEN [portfolios |-> (CHOOSE e \in hit : TRUE).value, cache |-> store]
    ELSE IF GatewayCalls(ledger) = {}
    THEN [portfolios |-> EmptyDict,
          cache |-> [store EXCEPT !.calculate_portfolio =
                        @ \cup {[key |-> ledger, value |-> EmptyDict]}]]
    ELSE
    LET hist_key == [tickers |-> AllTickers(ledger), start_date |-> StartDate(ledger),
                     end_date |-> day + 1]
        hist_hit == CacheHits(store.get_historical_prices, hist_key)
        hp == IF hist_hit # {} THEN (CHOOSE e \in hist_hit : TRUE).value
              ELSE get_historical_prices(kind, AllTickers(ledger), StartDate(ledger), day + 1)
        live_hit == CacheHits(store.get_current_price, AllTickers(ledger))
        lp == IF live_hit # {} THEN (CHOOSE e \in live_hit : TRUE).value ELSE live
        res == calculate_portfolio(ledger, day, hp, lp)
    IN [portfolios |-> RunPortfolios(res),
        cache |->
            [calculate_portfolio |->
                store.calculate_portfolio \cup
                    (IF res.raised THEN {} ELSE {[key |-> ledger, value |-> res.portfolios]}),
             get_historical_prices |->
                store.get_historical_prices \cup {[key |-> hist_key, value |-> hp]},
             get_current_price |->
                store.get_current_price \cup {[key |-> AllTickers(ledger), value |-> lp]}]]

\* What the gateway answers the sessions: the historical download is
\* complete; the live answer is a scalar (calculate_portfolio raises on it)
\* or a mapping that prices every ticker
SessionKinds == {"complete"}

SessionLive(tickers) ==
    {r \in LiveResponses(tickers) : r.scalar \/ \A t \in tickers : r.quotes[t].isnum}

\* The trades the sessions record: user1 buys and sells GME, user2 buys AMC
SessionOrders ==
    {o \in Orders :
        /\ o.shares = 5
        /\ o.price = (IF o.action = "Buy" THEN 4 ELSE 6)
        /\ \/ o.participant = "user1" /\ o.ticker = "GME"
           \/ o.participant = "user2" /\ o.ticker = "AMC" /\ o.action = "Buy"}

\* The rows of the user's dashboard: the trades of the user's entry in the
\* run's portfolios, none when the user has no entry
DashboardIds(run_portfolios, username) ==
    IF username \in DOMAIN run_portfolios
    THEN LET user_trades_df == run_portfolios[username].trades
         IN {user_trades_df[i].id : i \in 1..Len(user_trades_df)}
    ELSE {}

\* A different Confirm: the cache is cleared whether the delete succeeded or not
CacheAfterConfirm_AlwaysCleared(store, deleted) == EmptyCache

\* if deleted: st.cache_data.clear()
CacheAfterConfirm(store, deleted) == IF deleted THEN EmptyCache ELSE store

\* A script run with no button pressed: the rerun a handler asked for, or
\* any other interaction with the page
ScriptRun ==
    /\ \E kind \in SessionKinds, live \in SessionLive(AllTickers(trades_df)) :
          LET run == LoadAndCalculate(trades_df, today, CacheAtRunStart(cache), kind, live) IN
          /\ portfolios' = run.portfolios
          /\ cache' = run.cache
    /\ pc' = "ledger"
    /\ session_state' = [u \in Users |-> [session_state[u] EXCEPT !.pressed = NoButton]]
    /\ UNCHANGED <<trades_df, today, historical_prices, latest_prices_str, messages,
                   gateway_calls, portfolios_again, next_id, last_call,
                   users, registering, last_check>>

\* The script run in which "Record Trade" is pressed
PressRecordTrade(o) ==
    /\ pc = "ledger"
    /\ next_id <= MaxTrades
    /\ \E kind \in SessionKinds, live \in SessionLive(AllTickers(trades_df)) :
          LET run == LoadAndCalculate(trades_df, today, CacheAtRunStart(cache), kind, live) IN
          /\ portfolios' = run.portfolios
          /\ IF o.shares > 0 /\ o.price > 0
                /\ sell_action_valid(run.portfolios, o.participant, o)
             THEN /\ trades_df' = Append(trades_df,
                        [id |-> next_id,
                         participant |-> o.participant,
                         timestamp |-> [day |-> today, tod |-> next_id],
                         ticker |-> o.ticker,
                         action |-> o.action,
                         shares |-> o.shares,
                         price |-> o.price])
                  /\ next_id' = next_id + 1
                  /\ last_call' = [op |-> "save_trade",
                                   trade_id |-> [isint |-> TRUE, v |-> next_id],
                                   username |-> o.participant, result |-> TRUE]
                  /\ cache' = EmptyCache
                  /\ pc' = "rerun"
             ELSE /\ cache' = run.cache
                  /\ pc' = "ledger"
                  /\ UNCHANGED <<trades_df, next_id, last_call>>
    /\ session_state' = [session_state EXCEPT ![o.participant].pressed =
                            [button |-> "record", trade_id |-> 0]]
    /\ UNCHANGED <<today, historical_prices, latest_prices_str, messages, gateway_calls,
                   portfolios_again, users, registering, last_check>>

\* The script run in which the delete button of a dashboard row is pressed
PressDelete(username, trade_id) ==
    /\ pc = "ledger"
    /\ trade_id \notin session_state[username].confirming
    /\ \E kind \in SessionKinds, live \in SessionLive(AllTickers(trades_df)) :
          LET run == LoadAndCalculate(trades_df, today, CacheAtRunStart(cache), kind, live) IN
          /\ trade_id \in DashboardIds(run.portfolios, username)
          /\ portfolios' = run.portfolios
          /\ cache' = run.cache
    /\ session_state' = [session_state EXCEPT ![username] =
                            [confirming |-> @.confirming \cup {trade_id},
                             pressed |-> [button |-> "delete", trade_id |-> trade_id]]]
    /\ pc' = "rerun"
    /\ UNCHANGED <<trades_df, today, historical_prices, latest_prices_str, messages,
                   gateway_calls, portfolios_again, next_id, last_call,
                   users, registering, last_check>>

\* The script run in which "Confirm" of a dashboard row is pressed; the
\* database may fail the DELETE (sqlite3.Error: delete_trade returns False)
PressConfirm(username, trade_id) ==
    /\ pc = "ledger"
    /\ trade_id \in session_state[username].confirming
    /\ \E kind \in SessionKinds, live \in SessionLive(AllTickers(trades_df)),
          db_error \in BOOLEAN :
          LET run == LoadAndCalculate(trades_df, today, CacheAtRunStart(cache), kind, live)
              res == IF db_error THEN [trades |-> trades_df, result |-> FALSE]
                     ELSE delete_trade(trades_df, [isint |-> TRUE, v |-> trade_id], username)
          IN
          /\ trade_id \in DashboardIds(run.portfolios, username)
          /\ portfolios' = run.portfolios
          /\ trades_df' = res.trades
          /\ last_call' = [op |-> "delete_trade", trade_id |-> [isint |-> TRUE, v |-> trade_id],
                           username |-> username, result |-> res.result]
          /\ cache' = CacheAfterConfirm(run.cache, res.result)
    /\ session_state' = [session_state EXCEPT ![username] =
                            [confirming |-> @.confirming \ {trade_id},
                             pressed |-> [button |-> "confirm", trade_id |-> trade_id]]]
    /\ pc' = "rerun"
    /\ UNCHANGED <<today, historical_prices, latest_prices_str, messages, gateway_calls,
                   portfolios_again, next_id, users, registering, last_check>>

\* The script run in which "Cancel" of a dashboard row is pressed
PressCancel(username, trade_id) ==
    /\ pc = "ledger"
    /\ trade_id \in session_state[username].confirming
    /\ \E kind \in SessionKinds, live \in SessionLive(AllTickers(trades_df)) :
          LET run == LoadAndCalculate(trades_df, today, CacheAtRunStart(cache), kind, live) IN
          /\ trade_id \in DashboardIds(run.portfolios, username)
          /\ portfolios' = run.portfolios
          /\ cache' = run.cache
    /\ session_state' = [session_state EXCEPT ![username] =
                            [confirming |-> @.confirming \ {trade_id},
                             pressed |-> [button |-> "cancel", trade_id |-> trade_id]]]
    /\ pc' = "rerun"
    /\ UNCHANGED <<trades_df, today, historical_prices, latest_prices_str, messages,
                   gateway_calls, portfolios_again, next_id, last_call,
                   users, registering, last_check>>

NextSession ==
    \/ ScriptRun
    \/ \E o \in SessionOrders : PressRecordTrade(o)
    \/ \E username \in Users, trade_id \in 1..MaxTrades : PressDelete(username, trade_id)
    \/ \E username \in Users, trade_id \in 1..MaxTrades : PressConfirm(username, trade_id)
    \/ \E username \in Users, trade_id \in 1..MaxTrades : PressCancel(username, trade_id)
    \/ NextDay

SpecSession == Init /\ [][NextSession]_vars

\* ------------------------------------------------- the scripts on the table
\* seed() replaces the database by sample users and trades, one trade with a
\* NULL timestamp (the seeded table lets the column be NULL).  Two of its
\* trades stand for the thirteen: a dated Buy and the Buy without timestamp.
SeededTrades ==
    <<[id |-> 1, participant |-> "user1", timestamp |-> [day |-> 0, tod |-> 1],
       ticker |-> "GME", action |-> "Buy", shares |-> 5, price |-> 4],
      [id |-> 2, participant |-> "user2", timestamp |-> NaT,
       ticker |-> "AMC", action |-> "Buy", shares |-> 5, price |-> 4]>>

\* The table is the empty one of init_db() or the one seed() wrote
InitTable ==
    /\ trades_df \in {<<>>, SeededTrades}
    /\ today = 0
    /\ pc = "ledger"
    /\ historical_prices = EmptyFrame
    /\ latest_prices_str = NoAnswer
    /\ portfolios = EmptyDict
    /\ messages = {}
    /\ gateway_calls = {}
    /\ portfolios_again = EmptyDict
    /\ next_id = Len(trades_df) + 1
    /\ last_call = NoCall
    /\ session_state = [u \in Users |-> NewSession]
    /\ cache = EmptyCache
    /\ users = <<>>
    /\ registering = [r \in Registrants |-> NotRegistering]
    /\ last_check = NoCheck

\* The placeholder time of day of a repaired timestamp: 12:00:00
Noon == 12

\* The fallback estimate is now - timedelta(days=15)
EstimateLag == 15

NoMatch == -1

\* What the 45 days of daily ranges can tell of a trade price: the first day
\* whose Low..High range holds it (a day up to today), or no such day
PriceMatches(day) == (0..day) \cup {NoMatch}

\* repair_timestamps(): every trade with a NULL timestamp is given one, the
\* first day whose range holds its price at noon or, without a match, the
\* estimate 15 days back; nothing is written when no timestamp is NULL or
\* the download gave nothing
RepairTimestamps ==
    /\ pc = "ledger"
    /\ LET null_timestamp_trades == {i \in 1..Len(trades_df) : isna(trades_df[i].timestamp)}
       IN \E downloaded \in BOOLEAN, found_date \in [null_timestamp_trades -> PriceMatches(today)] :
            trades_df' =
                IF null_timestamp_trades = {} \/ ~downloaded THEN trades_df
                ELSE [i \in 1..Len(trades_df) |->
                        IF i \in null_timestamp_trades
                        THEN [trades_df[i] EXCEPT !.timestamp =
                                IF found_date[i] # NoMatch
                                THEN [day |-> found_date[i], tod |-> Noon]
                                ELSE [day |-> today - EstimateLag, tod |-> next_id]]
                        ELSE trades_df[i]]
    /\ UNCHANGED <<today, pc, historical_prices, latest_prices_str, portfolios,
                   messages, gateway_calls, portfolios_again, next_id, last_call>>
    /\ UNCHANGED <<session_state, cache, users, registering, last_check>>

NextTable ==
    \/ \E o \in Orders : RecordTrade(o)
    \/ \E username \in Users, trade_id \in TradeIds : DeleteTrade(username, trade_id)
    \/ \E trade_id \in TradeIds : AdminDeleteTrade(trade_id)
    \/ RepairTimestamps

SpecTable == InitTable /\ [][NextTable]_vars

\* -------------------------------------------------------------- passwords
\* A password is the sequence of the bytes of its UTF-8 encoding.  bcrypt
\* keys its hash with at most 72 bytes of the password: depending on the
\* bcrypt release installed, hashpw uses the first 72 bytes of a longer
\* password in silence ("truncates") or raises ValueError ("rejects").
\* The digest is taken to be collision-free: it stands for the salt and the
\* key bytes it was computed from.
BcryptKeyBytes == 72

BcryptBuilds == {"truncates", "rejects"}

\* bcrypt.gensalt()
Salts == {1, 2}

Filler(n) == [i \in 1..n |-> 1]

\* The passwords tried: the empty one, short ones, one of exactly 72 bytes
\* and two of 73 bytes that differ in the last byte only
Passwords ==
    {<<>>, <<1>>, <<2>>, <<1, 2>>,
     Filler(BcryptKeyBytes), Filler(BcryptKeyBytes) \o <<1>>, Filler(BcryptKeyBytes) \o <<2>>}

\* What hash_password returns when hashing raised
None == [isnone |-> TRUE]

\* bcrypt.hashpw(pwd_bytes, salt): [raised, hashed]
bcrypt_hashpw(build, pwd_bytes, salt) ==
    IF Len(pwd_bytes) > BcryptKeyBytes /\ build = "rejects"
    THEN [raised |-> TRUE, hashed |-> None]
    ELSE [raised |-> FALSE,
          hashed |-> [isnone |-> FALSE, salt |-> salt,
                      digest |-> SubSeq(pwd_bytes, 1,
                                        IF Len(pwd_bytes) > BcryptKeyBytes
                                        THEN BcryptKeyBytes ELSE Len(pwd_bytes))]]

\* hash_password(plain_password): the hash, or None when hashing raised
hash_password(build, plain_password, salt) ==
    LET res == bcrypt_hashpw(build, plain_password, salt)
    IN IF res.raised THEN None ELSE res.hashed

\* check_password(plain_password, hashed_password): bcrypt.checkpw hashes
\* the password with the salt of the stored hash and compares; any
\* exception (a hash that is None, a password bcrypt rejects) gives False
check_password(build, plain_password, hashed_password) ==
    IF hashed_password.isnone THEN FALSE
    ELSE LET res == bcrypt_hashpw(build, plain_password, hashed_password.salt)
         IN IF res.raised THEN FALSE ELSE res.hashed = hashed_password

\* A password is hashed and a password is checked against the hash
CheckPassword ==
    /\ \E build \in BcryptBuilds, p \in Passwords, q \in Passwords, salt \in Salts :
          LET hashed == hash_password(build, p, salt) IN
          last_check' = [op |-> "check_password", build |-> build, p |-> p, q |-> q,
                         hashed |-> hashed,
                         result |-> check_password(build, q, hashed)]
    /\ UNCHANGED <<trades_df, today, pc, historical_prices, latest_prices_str, portfolios,
                   messages, gateway_calls, portfolios_again, next_id, last_call,
                   session_state, cache, users, registering>>

NextPassword == CheckPassword

SpecPassword == Init /\ [][NextPassword]_vars

\* ------------------------------------------------------------ registration
\* What the registration form is given
RegUsernames == {"user1", "user2", "user3"}

RegEmails == {"a@example.com", "b@example.com"}

RegPasswords == {<<1>>, Filler(BcryptKeyBytes) \o <<1>>}

\* add_user up to the SELECT COUNT(*): the password is hashed (a failed
\* hash returns at once), the connection is opened and the users counted
AddUserCount(r, username, email, plain_password) ==
    /\ registering[r].at = "idle"
    /\ Len(users) < MaxUsers
    /\ \E build \in BcryptBuilds, salt \in Salts :
          LET hashed == hash_password(build, plain_password, salt) IN
          registering' =
              IF hashed.isnone THEN registering
              ELSE [registering EXCEPT ![r] =
                      [at |-> "counted", username |-> username, email |-> email,
                       hashed |-> hashed, user_count |-> Len(users)]]
    /\ UNCHANGED <<trades_df, today, pc, historical_prices, latest_prices_str, portfolios,
                   messages, gateway_calls, portfolios_again, next_id, last_call,
                   session_state, cache, users, last_check>>

\* add_user from the INSERT on: the row is written with the admin flag
\* worked out from the count, unless the username or the email is taken
\* (IntegrityError: nothing is written)
AddUserInsert(r) ==
    /\ registering[r].at = "counted"
    /\ LET reg == registering[r]
           is_first_user == reg.user_count = 0
           admin_flag == IF is_first_user THEN 1 ELSE 0
           taken == \E i \in 1..Len(users) :
                        users[i].username = reg.username \/ users[i].email = reg.email
       IN users' = IF taken THEN users
                   ELSE Append(users, [username |-> reg.username, email |-> reg.email,
                                       hashed_password |-> reg.hashed,
                                       is_admin |-> admin_flag])
    /\ registering' = [registering EXCEPT ![r] = NotRegistering]
    /\ UNCHANGED <<trades_df, today, pc, historical_prices, latest_prices_str, portfolios,
                   messages, gateway_calls, portfolios_again, next_id, last_call,
                   session_state, cache, last_check>>

NextAuth ==
    \/ \E r \in Registrants, username \in RegUsernames, email \in RegEmails,
          plain_password \in RegPasswords : AddUserCount(r, username, email, plain_password)
    \/ \E r \in Registrants : AddUserInsert(r)

SpecAuth == Init /\ [][NextAuth]_vars

\* The leaderboard's performance of a total_value, in percent
Performance(total_value) ==
    IF initial_capital > 0
    THEN QMulInt(QDivInt(QInt(total_value - initial_capital), initial_capital), 100)
    ELSE QInt(0)

\* =================================================================== claims
\* What the formulas below read of a finished call
Participants == UniqueOf(trades_df, "participant")

HistoryDays == IF GatewayCalls(trades_df) = {} THEN {} ELSE StartDate(trades_df)..today

\* The trade lists the two trade loops of the call went through: the final
\* loop once per participant, the daily loop once per participant and day
FinalRuns ==
    IF GatewayCalls(trades_df) = {} THEN {}
    ELSE {FinalParticipantTrades(trades_df, p) : p \in Participants}

DailyRuns == {DailyParticipantTrades(trades_df, p, d) : p \in Participants, d \in HistoryDays}

Held(st, ticker) == ticker \in DOMAIN st.holdings

SharesHeld(st, ticker) == IF Held(st, ticker) THEN st.holdings[ticker].shares ELSE 0

IsInvalidSell(st, trade) ==
    trade.action = "Sell" /\ (~Held(st, trade.ticker) \/ trade.shares > SharesHeld(st, trade.ticker))

IsValidSell(st, trade) ==
    trade.action = "Sell" /\ Held(st, trade.ticker) /\ trade.shares <= SharesHeld(st, trade.ticker)

\* P(before, trade, after) at every step of every run of both trade loops
AtEveryStep(P(_, _, _)) ==
    /\ \A rows \in FinalRuns :
          LET steps == FinalReplaySteps(rows)
          IN \A k \in 1..Len(rows) : P(steps[k], rows[k], steps[k + 1])
    /\ \A rows \in DailyRuns :
          LET steps == DailyReplaySteps(rows)
          IN \A k \in 1..Len(rows) : P(steps[k], rows[k], steps[k + 1])

\* P(before, trade, after) at some step of the final loop and of the daily loop
AtSomeStepOfBoth(P(_, _, _)) ==
    /\ \E rows \in FinalRuns :
          LET steps == FinalReplaySteps(rows)
          IN \E k \in 1..Len(rows) : P(steps[k], rows[k], steps[k + 1])
    /\ \E rows \in DailyRuns :
          LET steps == DailyReplaySteps(rows)
          IN \E k \in 1..Len(rows) : P(steps[k], rows[k], steps[k + 1])

\* ---------------------------------------------------------------------- C1
\* C1: a Sell whose ticker is not held, or whose shares exceed the shares
\* held, changes nothing: cash, holdings and realized P/L after it equal
\* those before it, in the daily loop and in the final loop.
C1_InvalidSellNoMutation ==
    pc = "returned" =>
        AtEveryStep(LAMBDA before, trade, after :
            IsInvalidSell(before, trade) => after = before)

\* An oversell of a held ticker, and a Sell of a ticker not held while
\* another is held, were both replayed by both loops.
C1_Witness ==
    /\ pc = "returned"
    /\ AtSomeStepOfBoth(LAMBDA before, trade, after :
            /\ trade.action = "Sell"
            /\ Held(before, trade.ticker)
            /\ trade.shares > SharesHeld(before, trade.ticker))
    /\ AtSomeStepOfBoth(LAMBDA before, trade, after :
            /\ trade.action = "Sell"
            /\ ~Held(before, trade.ticker)
            /\ before.holdings # EmptyDict)

\* ---------------------------------------------------------------------- C2
\* C2: every Buy debits cash by exactly shares*price; a ticker not held gets
\* the holding {shares, avg_price = price}; a ticker held gets
\* shares = old + shares and avg_price * (old + shares) = old*old_avg +
\* shares*price; no other holding and no realized P/L changes.  A
\* participant whose only trade is a Buy of s at p ends with cash 500 - s*p,
\* holdings {ticker: {s, p}} and total_realized_pl 0.
C2_BuyStep(before, trade, after) ==
    trade.action = "Buy" =>
        LET t == trade.ticker
            old == SharesHeld(before, t)
        IN
        /\ after.cash = before.cash - trade.shares * trade.price
        /\ after.realized_pl = before.realized_pl
        /\ DOMAIN after.holdings = (DOMAIN before.holdings) \cup {t}
        /\ \A x \in (DOMAIN before.holdings) \ {t} : after.holdings[x] = before.holdings[x]
        /\ after.holdings[t].shares = old + trade.shares
        /\ IF Held(before, t)
           THEN QMulInt(after.holdings[t].avg_price, old + trade.shares) =
                    QAdd(QMulInt(before.holdings[t].avg_price, old),
                         QInt(trade.shares * trade.price))
           ELSE after.holdings[t].avg_price = QInt(trade.price)

C2_BuyDebitsAndAverages ==
    pc = "returned" =>
        /\ AtEveryStep(C2_BuyStep)
        /\ \A p \in Participants :
              LET rows == FinalParticipantTrades(trades_df, p) IN
              (Len(rows) = 1 /\ rows[1].action = "Buy") =>
                  /\ portfolios[p].cash = initial_capital - rows[1].shares * rows[1].price
                  /\ DOMAIN portfolios[p].holdings = {rows[1].ticker}
                  /\ portfolios[p].holdings[rows[1].ticker] =
                        [shares |-> rows[1].shares, avg_price |-> QInt(rows[1].price)]
                  /\ portfolios[p].total_realized_pl = QInt(0)

\* Both loops blended a second Buy at another price into a holding (20 @ 4
\* and 5 @ 6 average 22/5), and some participant has a single Buy.
C2_Witness ==
    /\ pc = "returned"
    /\ AtSomeStepOfBoth(LAMBDA before, trade, after :
            /\ trade.action = "Buy"
            /\ Held(before, trade.ticker)
            /\ after.holdings[trade.ticker].avg_price = [n |-> 22, d |-> 5])
    /\ \E p \in Participants :
          LET rows == FinalParticipantTrades(trades_df, p) IN
          /\ Len(rows) = 1
          /\ rows[1].action = "Buy"
          /\ portfolios[p].cash = initial_capital - rows[1].shares * rows[1].price

\* ---------------------------------------------------------------------- C3
\* C3: total_realized_pl is the sum, over the valid Sells in replay order, of
\* (sale price - avg_price of the holding at that sale) * shares sold, and
\* every valid Sell credits cash by shares*price and takes its shares off
\* the holding.
RECURSIVE C3_GainsUpTo(_, _, _)
C3_GainsUpTo(rows, steps, k) ==
    IF k = 0 THEN QInt(0)
    ELSE QAdd(C3_GainsUpTo(rows, steps, k - 1),
              IF IsValidSell(steps[k], rows[k])
              THEN LET avg == steps[k].holdings[rows[k].ticker].avg_price
                   IN Q((rows[k].price * avg.d - avg.n) * rows[k].shares, avg.d)
              ELSE QInt(0))

C3_SellStep(before, trade, after) ==
    IsValidSell(before, trade) =>
        /\ after.cash = before.cash + trade.shares * trade.price
        /\ SharesHeld(after, trade.ticker) = SharesHeld(before, trade.ticker) - trade.shares

C3_RealizedIsSumOfGains ==
    pc = "returned" =>
        /\ AtEveryStep(C3_SellStep)
        /\ \A p \in Participants :
              LET rows == FinalParticipantTrades(trades_df, p)
              IN portfolios[p].total_realized_pl =
                    C3_GainsUpTo(rows, FinalReplaySteps(rows), Len(rows))

\* The ledger is Buy 20 @ 4 then Sell 5 @ 6 of GME by user1: realized P/L
\* 10, 15 shares at 4 and cash 450.
C3_Witness ==
    /\ pc = "returned"
    /\ Len(trades_df) = 2
    /\ "user1" \in DOMAIN portfolios
    /\ portfolios["user1"].total_realized_pl = QInt(10)
    /\ portfolios["user1"].holdings = [t \in {"GME"} |-> [shares |-> 15, avg_price |-> QInt(4)]]
    /\ portfolios["user1"].cash = 450

\* ---------------------------------------------------------------------- C4
\* C4: a valid Sell leaves the avg_price of what remains of the holding
\* unchanged and leaves every other ticker's holding as it was; a holding
\* whose shares reach zero is removed; a Buy of a ticker that is not held
\* (never held, or sold out before) starts a holding at that Buy's price.
C4_Step(before, trade, after) ==
    LET t == trade.ticker IN
    /\ IsValidSell(before, trade) =>
          /\ \A x \in Tickers \ {t} :
                /\ Held(after, x) <=> Held(before, x)
                /\ Held(before, x) => after.holdings[x] = before.holdings[x]
          /\ IF before.holdings[t].shares - trade.shares = 0
             THEN ~Held(after, t)
             ELSE /\ Held(after, t)
                  /\ after.holdings[t].avg_price = before.holdings[t].avg_price
    /\ (trade.action = "Buy" /\ ~Held(before, t)) =>
          after.holdings[t] = [shares |-> trade.shares, avg_price |-> QInt(trade.price)]

C4_SellKeepsAverage ==
    pc = "returned" => AtEveryStep(C4_Step)

\* A holding bought at 4 was sold out and the ticker bought again at 6: the
\* final holding stands at 6; and a partial Sell at another price than the
\* average happened while another ticker was held.
C4_WitnessRebuy ==
    /\ pc = "returned"
    /\ \E rows \in FinalRuns :
          LET steps == FinalReplaySteps(rows) IN
          /\ Len(rows) = 3
          /\ rows[1].action = "Buy" /\ rows[1].price = 4
          /\ IsValidSell(steps[2], rows[2]) /\ ~Held(steps[3], rows[2].ticker)
          /\ rows[3].action = "Buy" /\ rows[3].ticker = rows[1].ticker /\ rows[3].price = 6
          /\ steps[4].holdings[rows[3].ticker].avg_price = QInt(6)

\* ---------------------------------------------------------------------- C5
\* C5: at every step of both trade loops, and in the holdings returned, every
\* ticker present in holdings has a strictly positive share count.
C5_AllPositive(st) == \A t \in DOMAIN st.holdings : st.holdings[t].shares > 0

HasLivePrice(t) == latest_prices_str.quotes[t].isnum

LivePrice(t) == latest_prices_str.quotes[t].v

\* C6: a held ticker without a live price counts at its cost basis
\* shares*avg_price in current_holdings_value and in total_value, so
\* total_value = cash + sum of shares * (live price if any, else avg_price).
C6_CostBasisFallback ==
    pc = "returned" =>
        \A p \in Participants :
            LET h == portfolios[p].holdings
                worth == [t \in DOMAIN h |->
                            IF HasLivePrice(t) THEN QInt(h[t].shares * LivePrice(t))
                            ELSE QMulInt(h[t].avg_price, h[t].shares)]
            IN
            /\ QInt(portfolios[p].total_value) =
                    QAdd(QInt(portfolios[p].cash), SumQ(worth, DOMAIN h))
            /\ \A t \in DOMAIN h :
                    QInt(portfolios[p].current_holdings_value[t]) = worth[t]

\* ---------------------------------------------------------------------- C7
\* C7: a held ticker without a live price is absent from
\* current_holdings_price and adds nothing to total_unrealized_pl; a held
\* ticker with a live price is recorded at that price and adds
\* (current_price - avg_price) * shares.
C7_UnrealizedOnlyWhenPriced ==
    pc = "returned" =>
        \A p \in Participants :
            LET h == portfolios[p].holdings
                chp == portfolios[p].current_holdings_price
                part == [t \in DOMAIN h |->
                            IF HasLivePrice(t)
                            THEN Q((LivePrice(t) * h[t].avg_price.d - h[t].avg_price.n)
                                        * h[t].shares,
                                   h[t].avg_price.d)
                            ELSE QInt(0)]
            IN
            /\ DOMAIN chp \subseteq DOMAIN h
            /\ \A t \in DOMAIN h :
                    IF HasLivePrice(t) THEN t \in DOMAIN chp /\ chp[t] = LivePrice(t)
                    ELSE t \notin DOMAIN chp
            /\ portfolios[p].total_unrealized_pl = SumQ(part, DOMAIN h)

\* A participant holds one ticker with a live price, off its average, and
\* one without.
C7_Witness ==
    /\ pc = "returned"
    /\ \E p \in Participants :
          LET h == portfolios[p].holdings IN
          /\ \E t \in DOMAIN h : HasLivePrice(t) /\ h[t].avg_price # QInt(LivePrice(t))
          /\ \E t \in DOMAIN h : ~HasLivePrice(t)
          /\ portfolios[p].total_unrealized_pl # QInt(0)

\* ---------------------------------------------------------------------- C8
\* The day of a participant's own earliest trade
OwnFirstDay(p) ==
    MinOf({normalize(trades_df[i].timestamp) :
            i \in {j \in 1..Len(trades_df) : trades_df[j].participant = p}})

\* C8: value_history holds exactly one sample per calendar day from the
\* participant's own earliest trade date through the evaluation day, in
\* timestamp order.
C8_OneSamplePerOwnDay ==
    pc = "returned" =>
        \A p \in Participants :
            LET vh == portfolios[p].value_history IN
            /\ Len(vh) = today - OwnFirstDay(p) + 1
            /\ \A i \in 1..Len(vh) : vh[i].timestamp = OwnFirstDay(p) + i - 1

\* ---------------------------------------------------------------------- C9
\* C9: value_history starts with a baseline point whose total_value is
\* INITIAL_CAPITAL, ahead of the effect of the participant's first trade.
C9_BaselineFirst ==
    pc = "returned" =>
        \A p \in Participants :
            LET vh == portfolios[p].value_history IN
            /\ Len(vh) >= 1
            /\ vh[1].total_value = initial_capital

\* --------------------------------------------------------------------- C10
\* C10: when the last value_history sample is for the evaluation day, its
\* total_value equals the snapshot's total_value.
C10_HistoryMeetsSnapshot ==
    pc = "returned" =>
        \A p \in Participants :
            LET vh == portfolios[p].value_history IN
            (Len(vh) >= 1 /\ vh[Len(vh)].timestamp = today) =>
                vh[Len(vh)].total_value = portfolios[p].total_value

\* --------------------------------------------------------------------- C11
\* The ledger without the trades of participant a
WithoutTradesOf(a) == SelectSeq(trades_df, LAMBDA r : r.participant # a)

\* C11: for two ledgers that differ only in the trades of participant a,
\* with the same prices and evaluation day, the snapshot of every other
\* participant b (value_history included) is the same.  The second ledger
\* here is the first without a's trades.
C11_ParticipantsIndependent ==
    pc = "returned" =>
        \A a \in Participants : \A b \in Participants \ {a} :
            LET other == calculate_portfolio(WithoutTradesOf(a), today,
                                             historical_prices, latest_prices_str)
            IN /\ ~other.raised
               /\ b \in DOMAIN other.portfolios
               /\ other.portfolios[b] = portfolios[b]

Malformed(trade) == trade.shares <= 0 \/ trade.price <= 0

AllDated == \A i \in 1..Len(trades_df) : ~isna(trades_df[i].timestamp)

AllWellFormed == \A i \in 1..Len(trades_df) : ~Malformed(trades_df[i])

\* The snapshot with its rows in id order
RECURSIVE InsertById(_, _)
InsertById(sorted, row) ==
    IF sorted = <<>> THEN <<row>>
    ELSE IF row.id < Head(sorted).id THEN <<row>> \o sorted
         ELSE <<Head(sorted)>> \o InsertById(Tail(sorted), row)

RECURSIVE InIdOrder(_)
InIdOrder(df) ==
    IF df = <<>> THEN <<>>
    ELSE InsertById(InIdOrder(SubSeq(df, 1, Len(df) - 1)), df[Len(df)])

\* The fields of a snapshot that carry values (trades lists the rows)
ValueFields(pf) ==
    [cash |-> pf.cash, holdings |-> pf.holdings,
     total_realized_pl |-> pf.total_realized_pl,
     total_unrealized_pl |-> pf.total_unrealized_pl,
     total_value |-> pf.total_value, value_history |-> pf.value_history]

SameValues(a, b) ==
    /\ DOMAIN a = DOMAIN b
    /\ \A p \in DOMAIN a : ValueFields(a[p]) = ValueFields(b[p])

\* C13: in a ledger of well-formed, dated rows, of two trades of a
\* participant with equal timestamps the one with
\* the smaller id is replayed first, so the values returned are those the
\* same rows give in id order.
C13_TiesInIdOrder ==
    (pc = "returned" /\ AllDated /\ AllWellFormed) =>
        /\ \A rows \in FinalRuns \cup DailyRuns :
              \A i, j \in 1..Len(rows) :
                  (i < j /\ ~isna(rows[i].timestamp)
                         /\ rows[i].timestamp = rows[j].timestamp) => rows[i].id < rows[j].id
        /\ SameValues(portfolios,
                      calculate_portfolio(InIdOrder(trades_df), today,
                                          historical_prices, latest_prices_str).portfolios)

\* --------------------------------------------------------------------- C14
\* The ledger without the rows that have no timestamp
DatedRows == SelectSeq(trades_df, LAMBDA r : ~isna(r.timestamp))

\* C14: in a ledger of well-formed rows, a row without timestamp is skipped
\* everywhere: the values returned
\* (value_history, cash, holdings, P/L, total_value) are those of the
\* ledger without that row.
C14_UndatedRowSkipped ==
    (pc = "returned" /\ AllWellFormed) =>
        SameValues(portfolios,
                   calculate_portfolio(DatedRows, today,
                                       historical_prices, latest_prices_str).portfolios)

\* --------------------------------------------------------------------- C15
WellFormedRows == SelectSeq(trades_df, LAMBDA r : ~Malformed(r))

\* C15: in a ledger of dated rows, a row with non-positive shares or price
\* is a pure filter: the
\* replay state after it is the state before it, and the values returned are
\* those of the ledger without such rows.
C15_MalformedRowSkipped ==
    (pc = "returned" /\ AllDated) =>
        /\ AtEveryStep(LAMBDA before, trade, after : Malformed(trade) => after = before)
        /\ SameValues(portfolios,
                      calculate_portfolio(WellFormedRows, today,
                                          historical_prices, latest_prices_str).portfolios)

\* --------------------------------------------------------------------- C16
\* C16: an invalid Sell met by the replay is flagged by a surfaced message
\* about that trade, and the replay goes on: the participant's final state
\* is the state after the last of its trades, and every participant of the
\* ledger has a snapshot.
C16_InvalidSellFlagged ==
    pc = "returned" =>
        /\ DOMAIN portfolios = Participants
        /\ \A p \in Participants :
              LET rows == FinalParticipantTrades(trades_df, p)
                  steps == FinalReplaySteps(rows)
              IN /\ portfolios[p].cash = Last(steps).cash
                 /\ portfolios[p].holdings = Last(steps).holdings
                 /\ \A k \in 1..Len(rows) :
                       IsInvalidSell(steps[k], rows[k]) =>
                           \E m \in messages : m.id = rows[k].id

\* --------------------------------------------------------------------- C17
\* C17: when the live lookup yields no price (None) or the historical frame
\* is empty, the call does not raise and returns a snapshot for every
\* participant of the ledger.
C17_GatewayNeverFatal ==
    (/\ pc \in {"returned", "raised"}
     /\ trades_df # <<>>
     /\ \/ latest_prices_str.scalar
        \/ \E t \in DOMAIN latest_prices_str.quotes : ~latest_prices_str.quotes[t].isnum
        \/ FrameEmpty(historical_prices))
    => (pc = "returned" /\ DOMAIN portfolios = Participants)

\* --------------------------------------------------------------------- C18
\* C18: on an empty ledger calculate_portfolio returns the empty mapping and
\* calls no gateway function.
C18_EmptyLedgerEmptyResult ==
    (pc = "returned" /\ trades_df = <<>>) =>
        /\ portfolios = EmptyDict
        /\ gateway_calls = {}
        /\ messages = {}

\* The call was made on the empty ledger and returned.
C18_Witness ==
    /\ pc = "returned"
    /\ trades_df = <<>>
    /\ portfolios = EmptyDict
    /\ gateway_calls = {}

\* --------------------------------------------------------------------- C19
\* C19: after any recordings through the trade form and any deletions, every
\* Sell left in the ledger sells no more shares than its participant holds
\* of its ticker at its place in the chronological replay.
C19_EverySellCovered ==
    \A p \in Participants :
        LET rows == FinalParticipantTrades(trades_df, p)
            steps == FinalReplaySteps(rows)
        IN \A k \in 1..Len(rows) :
              rows[k].action = "Sell" => IsValidSell(steps[k], rows[k])

CostBasis(st) ==
    SumQ([t \in DOMAIN st.holdings |->
            QMulInt(st.holdings[t].avg_price, st.holdings[t].shares)],
         DOMAIN st.holdings)

CostBasisConserved(st) ==
    QAdd(QInt(st.cash), CostBasis(st)) = QAdd(QInt(initial_capital), st.realized_pl)

C28_Step(before, trade, after) ==
    /\ CostBasisConserved(before)
    /\ CostBasisConserved(after)
    /\ IsInvalidSell(before, trade) =>
          /\ QAdd(QInt(after.cash), CostBasis(after)) = QAdd(QInt(before.cash), CostBasis(before))
          /\ after.realized_pl = before.realized_pl

\* C28: at every step of a participant's replay, in the daily loop and in
\* the final loop, cash + the sum over the holdings of shares * avg_price
\* equals the initial capital + the realized P/L so far: the equality holds
\* before and after every Buy and every valid Sell, and a skipped Sell
\* changes neither side.
C28_CostBasisConserved ==
    pc = "returned" => AtEveryStep(C28_Step)

\* Both loops went through a Buy, a valid Sell at a price other than the
\* average paid that leaves shares behind, and a Sell that was skipped.
C28_Witness ==
    /\ pc = "returned"
    /\ AtSomeStepOfBoth(LAMBDA before, trade, after : trade.action = "Buy")
    /\ AtSomeStepOfBoth(LAMBDA before, trade, after :
            /\ IsValidSell(before, trade)
            /\ Held(after, trade.ticker)
            /\ after.realized_pl # before.realized_pl)
    /\ AtSomeStepOfBoth(LAMBDA before, trade, after : IsInvalidSell(before, trade))

\* ---------------------------------------------------------------------- C29
AllHeldPriced(p) == \A t \in DOMAIN portfolios[p].holdings : HasLivePrice(t)

\* C29: in a snapshot where every ticker the participant holds has a live
\* price, total_value = initial capital + total_realized_pl +
\* total_unrealized_pl, and the leaderboard's performance of that
\* total_value is (total_realized_pl + total_unrealized_pl) / initial
\* capital (times 100, the leaderboard shows percent).
C29_TotalValueIsCapitalPlusPl ==
    pc = "returned" =>
        \A p \in DOMAIN portfolios :
            AllHeldPriced(p) =>
                LET pf == portfolios[p]
                    pl == QAdd(pf.total_realized_pl, pf.total_unrealized_pl)
                IN /\ QInt(pf.total_value) = QAdd(QInt(initial_capital), pl)
                   /\ Performance(pf.total_value) =
                        QMulInt(QDivInt(pl, initial_capital), 100)

\* A participant sold at a gain or a loss, still holds shares, every held
\* ticker is priced and the live price is off the average paid.
C29_Witness ==
    /\ pc = "returned"
    /\ \E p \in DOMAIN portfolios :
          /\ AllHeldPriced(p)
          /\ portfolios[p].holdings # EmptyDict
          /\ portfolios[p].total_realized_pl # QInt(0)
          /\ portfolios[p].total_unrealized_pl # QInt(0)

\* ---------------------------------------------------------------------- C26
\* The participant's trades dated on day d or before, in timestamp order
TradesThroughDay(p, d) ==
    sort_values(SelectSeq(trades_df, LAMBDA r :
        r.participant = p /\ ~isna(r.timestamp) /\ r.timestamp.day <= d))

LedgerWithout(id) == SelectSeq(trades_df, LAMBDA r : r.id # id)

BuyApplied(before, trade, after) ==
    trade.action = "Buy" =>
        /\ after.cash = before.cash - trade.shares * trade.price
        /\ SharesHeld(after, trade.ticker) = SharesHeld(before, trade.ticker) + trade.shares

\* C27: a Buy is accepted whatever the cash balance, by the three places
\* that look at it.  The trade form passes every Buy of positive shares and
\* price in every script run, whatever the gateway answered and whatever the
\* user's cash; the daily loop and the final loop apply every Buy of the
\* ledger, the cash going below zero when the Buy costs more than is left.
C27_BuyAcceptedWhateverCash ==
    /\ \A o \in Orders :
          o.action = "Buy" =>
              \A kind \in HistKinds, lp \in LiveResponses(AllTickers(trades_df)) :
                  LET hp == get_historical_prices(kind, AllTickers(trades_df),
                                                  StartDate(trades_df), today + 1)
                      run_portfolios ==
                          RunPortfolios(calculate_portfolio(trades_df, today, hp, lp))
                  IN o.shares > 0 /\ o.price > 0
                     /\ sell_action_valid(run_portfolios, o.participant, o)
    /\ AtEveryStep(BuyApplied)

\* The form recorded a Buy of a user whose cash was below zero already, and
\* both loops applied it.
C27_Witness ==
    /\ last_call.op = "save_trade"
    /\ \E i \in 1..Len(trades_df) :
          /\ trades_df[i].id = last_call.trade_id.v
          /\ trades_df[i].action = "Buy"
          /\ AtSomeStepOfBoth(LAMBDA before, trade, after :
                /\ trade = trades_df[i]
                /\ before.cash < 0
                /\ after.cash < before.cash)

\* ---------------------------------------------------------------------- C25
\* The ticker's own most recent close at or before day d in the historical
\* frame of the call; 0 when it has none
OwnCloseAsOf(t, d) ==
    LET own == {x \in historical_prices.index :
                    x <= d /\ t \in DOMAIN historical_prices.close[x]}
    IN IF own = {} THEN 0 ELSE historical_prices.close[MaxOf(own)][t]

\* C25: in the sample of each day d, each held ticker counts shares times
\* its own most recent close at or before d, and a ticker the historical
\* frame has no close for counts zero without changing what the other held
\* tickers count.
C25_EachTickerAtOwnClose ==
    pc = "returned" =>
        \A p \in Participants :
            LET vh == portfolios[p].value_history IN
            \A i \in 1..Len(vh) :
                LET d == vh[i].timestamp
                    st == Last(DailyReplaySteps(DailyParticipantTrades(trades_df, p, d)))
                IN vh[i].total_value - st.cash =
                        SumInt([t \in DOMAIN st.holdings |->
                                    st.holdings[t].shares * OwnCloseAsOf(t, d)],
                               DOMAIN st.holdings)

\* ---------------------------------------------------------------------- C21
\* C21: a persisted trade is never edited.  Every step on the trades table
\* leaves each row that is in the table before and after it (same id) with
\* the participant, timestamp, ticker, action, shares and price it had, and
\* the step either leaves the table as it is, appends one trade or deletes
\* one.
C21_TradesImmutable ==
    [][/\ \A i \in 1..Len(trades_df), j \in 1..Len(trades_df') :
             trades_df'[j].id = trades_df[i].id => trades_df'[j] = trades_df[i]
       /\ \/ trades_df' = trades_df
          \/ /\ Len(trades_df') = Len(trades_df) + 1
             /\ SubSeq(trades_df', 1, Len(trades_df)) = trades_df
          \/ \E i \in 1..Len(trades_df) :
                trades_df' = SubSeq(trades_df, 1, i - 1)
                                \o SubSeq(trades_df, i + 1, Len(trades_df))]_vars

\* ---------------------------------------------------------------------- C22
\* What a fresh call of calculate_portfolio can make of a ledger on a day
FreshSnapshots(ledger, day) ==
    {RunPortfolios(calculate_portfolio(ledger, day,
            get_historical_prices(kind, AllTickers(ledger), StartDate(ledger), day + 1),
            live)) :
        kind \in SessionKinds, live \in SessionLive(AllTickers(ledger))}

\* C22: the portfolios of every script run are the replay, on the day of
\* the run, of the ledger the run loaded, never what an earlier run made of
\* another ledger or of another day; and a run that records or deletes a
\* trade ends in a rerun, so that what is shown next is the replay of the
\* ledger after the change.
C22_EveryRunReplaysTheLedger ==
    [][/\ today' = today => portfolios' \in FreshSnapshots(trades_df, today)
       /\ trades_df' # trades_df => pc' = "rerun"]_vars

\* A day after the trades were recorded and a first snapshot shown, a trade
\* was deleted and the rerun shows what is left, with a sample for each of
\* the two days.
C22_Witness ==
    /\ pc = "ledger"
    /\ today = 1
    /\ last_call.op = "delete_trade"
    /\ last_call.result = TRUE
    /\ \E p \in DOMAIN portfolios :
          /\ Len(portfolios[p].value_history) = 2
          /\ portfolios[p].trades # <<>>
          /\ \A i \in 1..Len(portfolios[p].trades) :
                portfolios[p].trades[i].id # last_call.trade_id.v
    /\ portfolios \in FreshSnapshots(trades_df, today)

\* ---------------------------------------------------------------------- C30
Pressed(username, button, trade_id) ==
    session_state'[username].pressed = [button |-> button, trade_id |-> trade_id]

\* C30: deleting from the dashboard takes two runs per trade id.  A row
\* leaves the ledger only in a run where its owner presses Confirm and the
\* row's confirming flag is set; the flag is set only by a press of the
\* row's delete button, in a run that leaves the ledger alone; Cancel
\* leaves the ledger alone; Confirm calls delete_trade; after Confirm or
\* Cancel the flag is cleared; and the handler of Confirm leaves the cache
\* cleared exactly when delete_trade returned True.
C30_TwoStepDelete ==
    [][\A username \in Users, trade_id \in 1..MaxTrades :
          LET flagged == trade_id \in session_state[username].confirming
              flagged_after == trade_id \in session_state'[username].confirming
              in_ledger == \E i \in 1..Len(trades_df) :
                              trades_df[i].id = trade_id /\ trades_df[i].participant = username
              in_ledger_after == \E i \in 1..Len(trades_df') :
                              trades_df'[i].id = trade_id /\ trades_df'[i].participant = username
          IN
          /\ (in_ledger /\ ~in_ledger_after) =>
                flagged /\ Pressed(username, "confirm", trade_id)
          /\ (~flagged /\ flagged_after) =>
                Pressed(username, "delete", trade_id) /\ trades_df' = trades_df
          /\ Pressed(username, "cancel", trade_id) =>
                flagged /\ ~flagged_after /\ trades_df' = trades_df /\ last_call' = last_call
          /\ Pressed(username, "confirm", trade_id) =>
                /\ flagged
                /\ ~flagged_after
                /\ last_call'.op = "delete_trade"
                /\ last_call'.trade_id.v = trade_id
                /\ last_call'.username = username
                /\ last_call'.result = (in_ledger /\ ~in_ledger_after)
                /\ (cache' = EmptyCache) = last_call'.result]_vars

\* Confirm was pressed on a flagged row: delete_trade returned True, the
\* row is gone, the flag is cleared and the cache is empty, while another
\* row of the same user still has its flag set.
C30_Witness ==
    /\ pc = "rerun"
    /\ last_call.op = "delete_trade"
    /\ last_call.result = TRUE
    /\ cache = EmptyCache
    /\ \E username \in Users :
          /\ session_state[username].pressed =
                [button |-> "confirm", trade_id |-> last_call.trade_id.v]
          /\ last_call.trade_id.v \notin session_state[username].confirming
          /\ \A i \in 1..Len(trades_df) : trades_df[i].id # last_call.trade_id.v
          /\ session_state[username].confirming # {}

\* ---------------------------------------------------------------------- C23
\* C23: for all passwords p and q, the empty one included,
\* check_password(q, hash_password(p)) is True exactly when q = p.
C23_HashRoundTrip ==
    last_check.op = "check_password" =>
        last_check.result = (last_check.q = last_check.p)

\* ---------------------------------------------------------------------- C24
\* C24: add_user sets the admin flag exactly when the users table is empty
\* at the time of the registration: the first row of the table is an admin
\* and no later row is, so at most one user is an admin by registration,
\* also when two registrations interleave.
C24_OnlyFirstUserAdmin ==
    \A i \in 1..Len(users) : (users[i].is_admin = 1) = (i = 1)

====
